---- MODULE Spec2Model ----
(***************************************************************************)
(* RAIN-CHECK (app3.py): a Streamlit script that extracts the text of an   *)
(* uploaded screenplay, asks a remote model nine fixed questions about it, *)
(* shows the cleaned answers and compiles them into a PDF report.          *)
(*                                                                         *)
(* Strings the code inspects character by character (model responses, file *)
(* names) are sequences of one-character strings; strings it only passes   *)
(* around or concatenates (page texts, prompts) are TLA+ strings.          *)
(***************************************************************************)
EXTENDS Integers, Sequences, FiniteSets, TLC

VARIABLES
    current_movie,     \* st.session_state["current_movie"]
    screenplay_text,   \* st.session_state["screenplay_text"], or Absent
    uploaded_file,     \* value of the st.file_uploader widget
    font_files,        \* font files present in the app folder
    pc,                \* position of the script run ("idle": no run in progress)
    button,            \* value st.button("Generate Report") returns in this run
    button_shown,      \* the Generate Report button is on the page
    download_shown,    \* the download button is on the page
    screenplay_arg,    \* argument of get_all_analyses_single
    results,           \* local `results` of get_all_analyses_single
    calls,             \* remote generation calls issued by this run, in order
    all_results,       \* script variable all_results
    pdf_file,          \* script variable pdf_file
    error,             \* exception that ended the run, or NoError
    snapshot,          \* session state when the current event arrived
    extracted_from,    \* the upload whose extraction last wrote the session
    report_for,        \* the upload a report was last compiled for, None once the uploader changes
    md_pc,             \* position of the Markup Cleaner harness
    md_text,           \* input string of clean_markdown
    md_once,           \* clean_markdown(md_text)
    md_twice,          \* clean_markdown(clean_markdown(md_text))
    rc_pc,             \* position of the Report Compiler harness
    rc_data,           \* argument `data` of create_pdf_report
    rc_out             \* outcome of create_pdf_report(rc_data)

sessionVars == <<current_movie, screenplay_text>>
pageVars == <<uploaded_file, button_shown, download_shown>>
runVars == <<pc, button, screenplay_arg, results, calls, all_results, pdf_file, error>>
ghostVars == <<snapshot, extracted_from, report_for>>
appVars == <<sessionVars, pageVars, runVars, ghostVars>>
mdVars == <<md_pc, md_text, md_once, md_twice>>
rcVars == <<rc_pc, rc_data, rc_out>>
vars == <<appVars, font_files, mdVars, rcVars>>

-----------------------------------------------------------------------------
(* Markup Cleaner: clean_markdown, one operator per re.sub / strip.        *)

\* Longest input string of the Markup Cleaner harness.
MaxLen == 6

NL == "\n"

\* The backquote character U+0060 (a TLA+ string literal cannot hold it).
BT == "<bq>"

\* Characters of the cleaner's inputs: the markers it strips, the two
\* whitespace characters, and an ordinary letter.
Alphabet == {"*", "_", "#", BT, NL, " ", "a"}

\* str.strip() and \s: whitespace
IsSpace(c) == c \in {" ", NL, "\t", "\r"}

DropFrom(s, n) == SubSeq(s, n, Len(s))

\* re.sub(r"(\*\*|__)", "", text): leftmost non-overlapping pairs removed
RECURSIVE RemoveBold(_)
RemoveBold(s) ==
    IF s = <<>> THEN <<>>
    ELSE IF Len(s) >= 2 /\ s[1] = s[2] /\ s[1] \in {"*", "_"}
         THEN RemoveBold(DropFrom(s, 3))
         ELSE <<s[1]>> \o RemoveBold(Tail(s))

\* number of leading characters of s that satisfy the class
RECURSIVE HashRun(_)
HashRun(s) == IF s # <<>> /\ s[1] = "#" THEN 1 + HashRun(Tail(s)) ELSE 0

RECURSIVE SpaceRun(_)
SpaceRun(s) == IF s # <<>> /\ IsSpace(s[1]) THEN 1 + SpaceRun(Tail(s)) ELSE 0

RECURSIVE BreakRun(_)
BreakRun(s) == IF s # <<>> /\ s[1] = NL THEN 1 + BreakRun(Tail(s)) ELSE 0

\* re.sub(r"(#+\s*)", "", text): each run of # and the whitespace after it
RECURSIVE RemoveHeadings(_)
RemoveHeadings(s) ==
    IF s = <<>> THEN <<>>
    ELSE IF s[1] = "#"
         THEN LET afterHash == DropFrom(s, HashRun(s) + 1)
              IN  RemoveHeadings(DropFrom(afterHash, SpaceRun(afterHash) + 1))
         ELSE <<s[1]>> \o RemoveHeadings(Tail(s))

\* re.sub(backquote, "", text)
RemoveBackticks(s) == SelectSeq(s, LAMBDA c : c # BT)

\* re.sub(r"\n{3,}", "\n\n", text): a run of three or more becomes two
RECURSIVE CollapseBreaks(_)
CollapseBreaks(s) ==
    IF s = <<>> THEN <<>>
    ELSE IF s[1] = NL
         THEN LET n == BreakRun(s)
              IN  (IF n >= 3 THEN <<NL, NL>> ELSE SubSeq(s, 1, n))
                      \o CollapseBreaks(DropFrom(s, n + 1))
         ELSE <<s[1]>> \o CollapseBreaks(Tail(s))

RECURSIVE RStrip(_)
RStrip(s) ==
    IF s # <<>> /\ IsSpace(s[Len(s)]) THEN RStrip(SubSeq(s, 1, Len(s) - 1)) ELSE s

\* text.strip()
Strip(s) == RStrip(DropFrom(s, SpaceRun(s) + 1))

\* the line-break pattern written so that it never matches a line break
clean_markdown_noCollapse(text) ==
    Strip(RemoveBackticks(RemoveHeadings(RemoveBold(text))))

clean_markdown(text) ==
    Strip(CollapseBreaks(RemoveBackticks(RemoveHeadings(RemoveBold(text)))))

-----------------------------------------------------------------------------
(* Values.  An optional value is the empty tuple or a one-element tuple.   *)

None == <<>>
Some(x) == <<x>>

Chars(s1, s2, s3, s4, s5) == <<s1, s2, s3, s4, s5>>

\* Uploaded documents: a name, the text of each page, and whether fitz can
\* open the bytes as a PDF.
Files ==
    { [name |-> Chars("A", ".", "p", "d", "f"), pages |-> <<"INT. A ", "FADE OUT">>, parseable |-> TRUE],
      [name |-> Chars("B", ".", "p", "d", "f"), pages |-> <<"INT. B">>, parseable |-> TRUE],
      [name |-> Chars("B", ".", "p", "d", "f"), pages |-> <<"EXT. B2">>, parseable |-> TRUE],
      [name |-> Chars("E", ".", "p", "d", "f"), pages |-> <<>>, parseable |-> TRUE],
      [name |-> Chars("C", ".", "p", "d", "f"), pages |-> <<>>, parseable |-> FALSE] }

\* Texts the remote service may answer with.
Responses ==
    { <<"*", "*", "a", "*", "*">>,
      <<"#", " ", "a", NL, NL, NL, BT, "a", BT>> }

FontNames == {"DejaVuSans.ttf", "DejaVuSans-Bold.ttf"}

-----------------------------------------------------------------------------
(* Text Extractor                                                          *)

\* text = ""; for page in doc: text += page.get_text()
RECURSIVE ConcatPages(_)
ConcatPages(pages) ==
    IF pages = <<>> THEN "" ELSE Head(pages) \o ConcatPages(Tail(pages))

extract_text_from_pdf(file) == ConcatPages(file.pages)

\* last index of c in p, 0 when absent
RECURSIVE RFind(_, _)
RFind(p, c) ==
    IF p = <<>> THEN 0
    ELSE IF p[Len(p)] = c THEN Len(p) ELSE RFind(SubSeq(p, 1, Len(p) - 1), c)

\* os.path.splitext(p)[0]: p up to its last dot, unless that dot is before
\* the last "/" or only dots come before it in the file name
splitext_root(p) ==
    LET sepIndex == RFind(p, "/")
        dotIndex == RFind(p, ".")
    IN  IF dotIndex > sepIndex
             /\ \E k \in (sepIndex + 1)..(dotIndex - 1) : p[k] # "."
        THEN SubSeq(p, 1, dotIndex - 1)
        ELSE p

movie_name_of(file) == splitext_root(file.name)

\* the condition that guards the extraction
ExtractionNeeded_textOnly(text, movie, movie_name) == text = None
ExtractionNeeded_always(text, movie, movie_name) == TRUE
ExtractionNeeded(text, movie, movie_name) ==
    text = None \/ movie # Some(movie_name)

-----------------------------------------------------------------------------
(* Analysis Orchestrator                                                   *)

Categories ==
    << "Logline", "Genre", "Top Keywords", "Location Setting", "Synopsis",
       "Script Score", "Plot Assessment", "Character Profiling",
       "Box Office Collection" >>

\* the opening words of each category's instruction
Instructions ==
    << "Write a Hollywood-style logline for my screenplay.",
       "Suggest the genre for the provided screenplay.",
       "Give the top 10 keywords of the attached movie screenplay without any explanation.",
       "Give the location setting of the attached movie screenplay, considering only the primary location.",
       "Give only the synopsis of the attached screenplay.",
       "Analyze the attached screenplay and give it a script score out of 10",
       "Analyze the attached screenplay and give the plot assessment and enhancement",
       "Analyze the attached screenplay and return character profiling for the main characters",
       "Analyze the attached screenplay and give its box office prediction" >>

MaxTokensBatch == 1200

\* d[k] = v on an insertion-ordered dict, held as a sequence of <<key, value>>
DictSet(d, k, v) ==
    IF \E j \in 1..Len(d) : d[j][1] = k
    THEN [j \in 1..Len(d) |-> IF d[j][1] = k THEN <<k, v>> ELSE d[j]]
    ELSE Append(d, <<k, v>>)

RECURSIVE DictOf(_)
DictOf(pairs) ==
    IF pairs = <<>> THEN <<>>
    ELSE LET last == pairs[Len(pairs)]
         IN  DictSet(DictOf(SubSeq(pairs, 1, Len(pairs) - 1)), last[1], last[2])

Keys(d) == [j \in 1..Len(d) |-> d[j][1]]

PromptFor(k, label, screenplay) ==
    <<label, Instructions[k] \o "\n\nScreenplay:\n\"\"\"" \o screenplay \o "\"\"\"">>

\* the dict literal with the key of the fifth entry repeated from the fourth
prompts_repeatedKey(screenplay) ==
    DictOf([k \in 1..Len(Categories) |->
               PromptFor(k, IF k = 5 THEN Categories[4] ELSE Categories[k], screenplay)])

\* the prompts dict: category -> instruction with the screenplay embedded
prompts(screenplay) ==
    DictOf([k \in 1..Len(Categories) |-> PromptFor(k, Categories[k], screenplay)])

-----------------------------------------------------------------------------
(* Report Compiler                                                         *)

font_regular == "DejaVuSans.ttf"
font_bold == "DejaVuSans-Bold.ttf"

TitleBlock == [kind |-> "title", text |-> "Screenplay Analysis Report", ln |-> 10]
HeadingBlock(section) == [kind |-> "heading", text |-> section, ln |-> 2]
BodyBlock(cleaned) == [kind |-> "body", text |-> cleaned, ln |-> 10]

\* for section, content in data.items(): heading, then the cleaned body
RECURSIVE SectionBlocks(_)
SectionBlocks(data) ==
    IF data = <<>> THEN <<>>
    ELSE << HeadingBlock(data[1][1]), BodyBlock(clean_markdown(data[1][2])) >>
             \o SectionBlocks(Tail(data))

\* the body written as received, without clean_markdown
RECURSIVE RawSectionBlocks(_)
RawSectionBlocks(data) ==
    IF data = <<>> THEN <<>>
    ELSE << HeadingBlock(data[1][1]), BodyBlock(data[1][2]) >>
             \o RawSectionBlocks(Tail(data))

create_pdf_report_rawBody(data, files) ==
    IF font_regular \notin files \/ font_bold \notin files
    THEN [error |-> "FileNotFoundError", doc |-> <<>>]
    ELSE [error |-> "NoError", doc |-> <<TitleBlock>> \o RawSectionBlocks(data)]

\* a compiler that looks every category up in data and raises on a missing one
create_pdf_report_validating(data, files) ==
    IF font_regular \notin files \/ font_bold \notin files
    THEN [error |-> "FileNotFoundError", doc |-> <<>>]
    ELSE IF \E k \in 1..Len(Categories) : \A j \in 1..Len(data) : data[j][1] # Categories[k]
         THEN [error |-> "KeyError", doc |-> <<>>]
         ELSE [error |-> "NoError", doc |-> <<TitleBlock>> \o SectionBlocks(data)]

create_pdf_report(data, files) ==
    IF font_regular \notin files \/ font_bold \notin files
    THEN [error |-> "FileNotFoundError", doc |-> <<>>]
    ELSE [error |-> "NoError", doc |-> <<TitleBlock>> \o SectionBlocks(data)]

-----------------------------------------------------------------------------
(* The script: one run per event.  A run starts with fresh script          *)
(* variables; only st.session_state survives from run to run.              *)

\* the results kept from run to run, as if stored in st.session_state
FreshRun_kept(previous) == previous

\* value of a script variable of the previous run when the next run starts
FreshRun(previous) == None

ScriptStart(clicked) ==
    /\ pc' = "line175"
    /\ button' = clicked
    /\ button_shown' = FALSE
    /\ download_shown' = FALSE
    /\ screenplay_arg' = None
    /\ results' = <<>>
    /\ calls' = <<>>
    /\ all_results' = FreshRun(all_results)
    /\ pdf_file' = FreshRun(pdf_file)
    /\ error' = "NoError"
    /\ snapshot' = <<current_movie, screenplay_text>>
    /\ UNCHANGED <<sessionVars, extracted_from, font_files, mdVars, rcVars>>

\* the user picks a document in the uploader
Upload ==
    /\ pc = "idle"
    /\ \E f \in Files : uploaded_file' = Some(f)
    /\ report_for' = None
    /\ ScriptStart(FALSE)

\* the user removes the document from the uploader
RemoveUpload ==
    /\ pc = "idle"
    /\ uploaded_file # None
    /\ uploaded_file' = None
    /\ report_for' = None
    /\ ScriptStart(FALSE)

\* the user clicks Generate Report
ClickGenerate ==
    /\ pc = "idle"
    /\ button_shown
    /\ UNCHANGED <<uploaded_file, report_for>>
    /\ ScriptStart(TRUE)

\* the user clicks the download button
ClickDownload ==
    /\ pc = "idle"
    /\ download_shown
    /\ UNCHANGED <<uploaded_file, report_for>>
    /\ ScriptStart(FALSE)

EndRun(err) ==
    /\ pc' = "idle"
    /\ error' = err

\* uploaded_file is None: st.info, end of script
NoUpload ==
    /\ pc = "line175"
    /\ uploaded_file = None
    /\ EndRun("NoError")
    /\ UNCHANGED <<sessionVars, pageVars, button, screenplay_arg, results, calls,
                   all_results, pdf_file, ghostVars, font_files, mdVars, rcVars>>

AtExtraction(needed) ==
    /\ pc = "line175"
    /\ uploaded_file # None
    /\ needed = ExtractionNeeded(screenplay_text, current_movie,
                                 movie_name_of(uploaded_file[1]))

\* same movie and a text is held: nothing to extract
SkipExtraction ==
    /\ AtExtraction(FALSE)
    /\ pc' = "line185"
    /\ UNCHANGED <<sessionVars, pageVars, button, screenplay_arg, results, calls,
                   all_results, pdf_file, error, ghostVars, font_files, mdVars, rcVars>>

\* extraction succeeds: text, then current_movie, are stored
ExtractOK ==
    /\ AtExtraction(TRUE)
    /\ uploaded_file[1].parseable
    /\ screenplay_text' = Some(extract_text_from_pdf(uploaded_file[1]))
    /\ current_movie' = Some(movie_name_of(uploaded_file[1]))
    /\ extracted_from' = uploaded_file
    /\ pc' = "line185"
    /\ UNCHANGED <<pageVars, button, screenplay_arg, results, calls, all_results,
                   pdf_file, error, snapshot, report_for, font_files, mdVars, rcVars>>

\* current_movie stored before the extraction is attempted
ExtractFail_movieFirst ==
    /\ AtExtraction(TRUE)
    /\ ~uploaded_file[1].parseable
    /\ current_movie' = Some(movie_name_of(uploaded_file[1]))
    /\ EndRun("ExtractionError")
    /\ UNCHANGED <<screenplay_text, pageVars, button, screenplay_arg, results, calls,
                   all_results, pdf_file, ghostVars, font_files, mdVars, rcVars>>

\* fitz.open raises: the run ends before anything is stored
ExtractFail ==
    /\ AtExtraction(TRUE)
    /\ ~uploaded_file[1].parseable
    /\ EndRun("ExtractionError")
    /\ UNCHANGED <<sessionVars, pageVars, button, screenplay_arg, results, calls,
                   all_results, pdf_file, ghostVars, font_files, mdVars, rcVars>>

\* st.button returns False: the run ends with the button on the page
ButtonNotClicked ==
    /\ pc = "line185"
    /\ ~button
    /\ button_shown' = TRUE
    /\ EndRun("NoError")
    /\ UNCHANGED <<sessionVars, uploaded_file, download_shown, button, screenplay_arg,
                   results, calls, all_results, pdf_file, ghostVars, font_files,
                   mdVars, rcVars>>

\* st.button returns True: get_all_analyses_single is entered
ButtonClicked ==
    /\ pc = "line185"
    /\ button
    /\ button_shown' = TRUE
    /\ screenplay_arg' = screenplay_text
    /\ results' = <<>>
    /\ pc' = "analyse"
    /\ UNCHANGED <<sessionVars, uploaded_file, download_shown, button, calls,
                   all_results, pdf_file, error, ghostVars, font_files, mdVars, rcVars>>

\* the prompt dict entry the loop is at
NextPrompt == prompts(screenplay_arg[1])[Len(calls) + 1]

InLoop ==
    /\ pc = "analyse"
    /\ Len(calls) < Len(prompts(screenplay_arg[1]))

Request(prompt_text) == [prompt |-> prompt_text, max_tokens |-> MaxTokensBatch]

\* call_openai_single returns a response; it is stored under its section
CallOK ==
    /\ InLoop
    /\ \E r \in Responses :
          /\ calls' = Append(calls, [section |-> NextPrompt[1],
                                     request |-> Request(NextPrompt[2]),
                                     response |-> Some(r)])
          /\ results' = DictSet(results, NextPrompt[1], r)
    /\ UNCHANGED <<sessionVars, pageVars, pc, button, screenplay_arg, all_results,
                   pdf_file, error, ghostVars, font_files, mdVars, rcVars>>

\* the failure is caught and an empty response stored instead
CallFail_swallowed ==
    /\ InLoop
    /\ calls' = Append(calls, [section |-> NextPrompt[1],
                               request |-> Request(NextPrompt[2]),
                               response |-> None])
    /\ results' = DictSet(results, NextPrompt[1], <<>>)
    /\ UNCHANGED <<sessionVars, pageVars, pc, button, screenplay_arg, all_results,
                   pdf_file, error, ghostVars, font_files, mdVars, rcVars>>

\* call_openai_single raises: the exception leaves the function and the script
CallFail ==
    /\ InLoop
    /\ calls' = Append(calls, [section |-> NextPrompt[1],
                               request |-> Request(NextPrompt[2]),
                               response |-> None])
    /\ results' = <<>>
    /\ EndRun("GenerationError")
    /\ UNCHANGED <<sessionVars, pageVars, button, screenplay_arg, all_results,
                   pdf_file, ghostVars, font_files, mdVars, rcVars>>

\* the loop is over: return results
Return ==
    /\ pc = "analyse"
    /\ Len(calls) = Len(prompts(screenplay_arg[1]))
    /\ all_results' = Some(results)
    /\ results' = <<>>
    /\ pc' = "line189"
    /\ UNCHANGED <<sessionVars, pageVars, button, screenplay_arg, calls, pdf_file,
                   error, ghostVars, font_files, mdVars, rcVars>>

\* if all_results: the sections are written to the page
ShowResults ==
    /\ pc = "line189"
    /\ IF all_results[1] # <<>> THEN pc' = "line200" /\ error' = error
                                ELSE EndRun("NoError")
    /\ UNCHANGED <<sessionVars, pageVars, button, screenplay_arg, results, calls,
                   all_results, pdf_file, ghostVars, font_files, mdVars, rcVars>>

\* create_pdf_report returns: the download button is shown
PdfOK ==
    /\ pc = "line200"
    /\ LET out == create_pdf_report(all_results[1], font_files)
       IN  /\ out.error = "NoError"
           /\ pdf_file' = Some(out.doc)
    /\ download_shown' = TRUE
    /\ report_for' = uploaded_file
    /\ EndRun("NoError")
    /\ UNCHANGED <<sessionVars, uploaded_file, button_shown, button, screenplay_arg,
                   results, calls, all_results, snapshot, extracted_from, font_files,
                   mdVars, rcVars>>

\* create_pdf_report raises FileNotFoundError
PdfFail ==
    /\ pc = "line200"
    /\ LET out == create_pdf_report(all_results[1], font_files)
       IN  /\ out.error # "NoError"
           /\ EndRun(out.error)
    /\ UNCHANGED <<sessionVars, pageVars, button, screenplay_arg, results, calls,
                   all_results, pdf_file, ghostVars, font_files, mdVars, rcVars>>

AppIdle ==
    /\ current_movie = None
    /\ screenplay_text = None
    /\ uploaded_file = None
    /\ pc = "idle"
    /\ button = FALSE
    /\ button_shown = FALSE
    /\ download_shown = FALSE
    /\ screenplay_arg = None
    /\ results = <<>>
    /\ calls = <<>>
    /\ all_results = None
    /\ pdf_file = None
    /\ error = "NoError"
    /\ snapshot = <<None, None>>
    /\ extracted_from = None
    /\ report_for = None

MdIdle ==
    /\ md_pc = "off"
    /\ md_text = <<>>
    /\ md_once = <<>>
    /\ md_twice = <<>>

RcIdle ==
    /\ rc_pc = "off"
    /\ rc_data = <<>>
    /\ rc_out = [error |-> "NoError", doc |-> <<>>]

Init ==
    /\ AppIdle
    /\ font_files \in SUBSET FontNames
    /\ MdIdle
    /\ RcIdle

Next ==
    \/ Upload
    \/ RemoveUpload
    \/ ClickGenerate
    \/ ClickDownload
    \/ NoUpload
    \/ SkipExtraction
    \/ ExtractOK
    \/ ExtractFail
    \/ ButtonNotClicked
    \/ ButtonClicked
    \/ CallOK
    \/ CallFail
    \/ Return
    \/ ShowResults
    \/ PdfOK
    \/ PdfFail

Spec == Init /\ [][Next]_vars

-----------------------------------------------------------------------------
(* Markup Cleaner harness: clean_markdown applied once, then again, to     *)
(* every string over Alphabet of at most MaxLen characters.                *)

Strings == UNION { [1..n -> Alphabet] : n \in 0..MaxLen }

CleanOnce ==
    /\ md_pc = "input"
    /\ md_once' = clean_markdown(md_text)
    /\ md_pc' = "once"
    /\ UNCHANGED <<appVars, font_files, md_text, md_twice, rcVars>>

CleanTwice ==
    /\ md_pc = "once"
    /\ md_twice' = clean_markdown(md_once)
    /\ md_pc' = "twice"
    /\ UNCHANGED <<appVars, font_files, md_text, md_once, rcVars>>

InitClean ==
    /\ AppIdle
    /\ font_files = {}
    /\ RcIdle
    /\ md_pc = "input"
    /\ md_text \in Strings
    /\ md_once = <<>>
    /\ md_twice = <<>>

NextClean == CleanOnce \/ CleanTwice

SpecClean == InitClean /\ [][NextClean]_vars

-----------------------------------------------------------------------------
(* Report Compiler harness: create_pdf_report applied to mappings that     *)
(* hold any subset of the categories, in category order, with any of the   *)
(* responses as content, under every set of font files.                    *)

CategoryIndex(label) == CHOOSE k \in 1..Len(Categories) : Categories[k] = label

RcPut ==
    /\ rc_pc = "build"
    /\ \E k \in 1..Len(Categories), r \in Responses :
          /\ IF rc_data = <<>> THEN TRUE
                               ELSE CategoryIndex(rc_data[Len(rc_data)][1]) < k
          /\ rc_data' = DictSet(rc_data, Categories[k], r)
    /\ UNCHANGED <<appVars, font_files, mdVars, rc_pc, rc_out>>

RcCompile ==
    /\ rc_pc = "build"
    /\ rc_out' = create_pdf_report(rc_data, font_files)
    /\ rc_pc' = "done"
    /\ UNCHANGED <<appVars, font_files, mdVars, rc_data>>

InitPdf ==
    /\ AppIdle
    /\ MdIdle
    /\ font_files \in SUBSET FontNames
    /\ rc_pc = "build"
    /\ rc_data = <<>>
    /\ rc_out = [error |-> "NoError", doc |-> <<>>]

NextPdf == RcPut \/ RcCompile

SpecPdf == InitPdf /\ [][NextPdf]_vars

-----------------------------------------------------------------------------
(* Properties                                                              *)

FontsAvailable == FontNames \subseteq font_files

\* the text a prompt carries for a screenplay
PromptText(k, screenplay) ==
    Instructions[k] \o "\n\nScreenplay:\n\"\"\"" \o screenplay \o "\"\"\""

\* s holds n or more consecutive line breaks
HasBreakRun(s, n) ==
    \E j \in 1..(Len(s) - n + 1) : \A d \in 0..(n - 1) : s[j + d] = NL

\* the analysis has returned in the current run
Returned == all_results # None

\* C1: every successful run of get_all_analyses_single, whatever the
\* screenplay text, has issued exactly nine remote calls, one per category in
\* the fixed order, and returns the nine categories in that order, each with
\* the response of its own call; while the loop runs, the calls issued so far
\* are the first categories of the fixed order.
C1_NineCallsInFixedOrder ==
    /\ Len(calls) <= Len(Categories)
    /\ \A k \in 1..Len(calls) :
          /\ calls[k].section = Categories[k]
          /\ calls[k].request.prompt = PromptText(k, screenplay_arg[1])
    /\ pc = "analyse" =>
          /\ Len(results) = Len(calls)
          /\ \A k \in 1..Len(results) : results[k] = <<Categories[k], calls[k].response[1]>>
    /\ Returned =>
          /\ Len(calls) = 9
          /\ Keys(all_results[1]) = Categories
          /\ \A k \in 1..9 :
                /\ calls[k].response # None
                /\ all_results[1][k] = <<Categories[k], calls[k].response[1]>>

\* C1 witness: the analysis of an empty screenplay text has returned.
C1_Witness ==
    /\ Returned
    /\ screenplay_arg = Some("")
    /\ Len(calls) = 9
    /\ all_results[1][1][2] # all_results[1][9][2]

\* C2: a failed remote call ends the run with the failure: it is the last
\* call issued, its category was called once only, no AnalysisResult (nor a
\* partial one) and no document is held, and the run is over.
C2_FailureAbortsBatch ==
    /\ \A k \in 1..Len(calls) :
          calls[k].response = None =>
              /\ k = Len(calls)
              /\ pc = "idle"
              /\ error = "GenerationError"
              /\ all_results = None
              /\ results = <<>>
              /\ pdf_file = None
              /\ \A j \in 1..(k - 1) : calls[j].section # calls[k].section
    /\ error = "GenerationError" =>
          /\ calls # <<>>
          /\ calls[Len(calls)].response = None

\* C2 witness: the call for Genre has failed after Logline succeeded.
C2_Witness ==
    /\ error = "GenerationError"
    /\ Len(calls) = 2
    /\ calls[1].response # None
    /\ calls[2].section = "Genre"
    /\ calls[2].response = None

\* C3: clean_markdown(clean_markdown(s)) = clean_markdown(s).
C3_Idempotent == md_pc = "twice" => md_twice = md_once

\* C4: the output of clean_markdown holds no run of four or more line breaks.
C4_NoFourLineBreaks ==
    /\ md_pc \in {"once", "twice"} => ~HasBreakRun(md_once, 4)
    /\ md_pc = "twice" => ~HasBreakRun(md_twice, 4)

\* C4 witness: the input holds no run of four line breaks, stripping its
\* markers creates one, and the cleaned output is not empty.
C4_Witness ==
    /\ md_pc = "once"
    /\ ~HasBreakRun(md_text, 4)
    /\ HasBreakRun(RemoveBackticks(RemoveHeadings(RemoveBold(md_text))), 4)
    /\ md_once # <<>>

\* some category has no entry in data
MissingKey(data) ==
    \E k \in 1..Len(Categories) : \A j \in 1..Len(data) : data[j][1] # Categories[k]

\* C5 as claimed: create_pdf_report fails on a mapping that lacks a category.
C5_MissingKeyRejected ==
    (rc_pc = "done" /\ MissingKey(rc_data)) => rc_out.error # "NoError"

\* C5 amended: on a mapping that lacks a category create_pdf_report fails
\* exactly when a font file is missing; otherwise it returns the title block
\* followed by the heading and cleaned body of each entry present, in the
\* mapping's order, and nothing for the categories that are missing.
C5_MissingKeyOmitted ==
    (rc_pc = "done" /\ MissingKey(rc_data)) =>
        IF FontsAvailable
        THEN /\ rc_out.error = "NoError"
             /\ Len(rc_out.doc) = 1 + 2 * Len(rc_data)
             /\ rc_out.doc[1] = TitleBlock
             /\ \A j \in 1..Len(rc_data) :
                   /\ rc_out.doc[2 * j].kind = "heading"
                   /\ rc_out.doc[2 * j].text = rc_data[j][1]
                   /\ rc_out.doc[2 * j + 1].kind = "body"
                   /\ rc_out.doc[2 * j + 1].text = clean_markdown(rc_data[j][2])
        ELSE rc_out.error = "FileNotFoundError"

\* C5 witness: a document was compiled from a mapping without Synopsis.
C5_Witness ==
    /\ rc_pc = "done"
    /\ FontsAvailable
    /\ Len(rc_data) = 8
    /\ \A j \in 1..Len(rc_data) : rc_data[j][1] # "Synopsis"
    /\ rc_out.error = "NoError"

\* C6: with the fonts present and all nine categories in the mapping, the
\* document is the title block followed, category by category in the fixed
\* order, by the heading and the cleaned body of that category.
C6_CompleteReport ==
    (rc_pc = "done" /\ FontsAvailable /\ Keys(rc_data) = Categories) =>
        /\ rc_out.error = "NoError"
        /\ rc_out.doc # <<>>
        /\ Len(rc_out.doc) = 1 + 2 * Len(Categories)
        /\ rc_out.doc[1].kind = "title"
        /\ rc_out.doc[1].text = "Screenplay Analysis Report"
        /\ \A k \in 1..Len(Categories) :
              /\ rc_out.doc[2 * k].kind = "heading"
              /\ rc_out.doc[2 * k].text = Categories[k]
              /\ rc_out.doc[2 * k + 1].kind = "body"
              /\ rc_out.doc[2 * k + 1].text = clean_markdown(rc_data[k][2])

\* C6 witness: a document compiled from nine entries that differ in content.
C6_Witness ==
    /\ rc_pc = "done"
    /\ FontsAvailable
    /\ Keys(rc_data) = Categories
    /\ rc_data[1][2] # rc_data[2][2]
    /\ Len(rc_out.doc) = 19

\* C7: the session holds the text of the document whose extraction last
\* succeeded, nothing of an earlier one; a report-generation request passes
\* that text, and the document it belongs to has the identifier of the
\* document in the uploader.
C7_NewUploadSupersedes ==
    /\ extracted_from # None =>
          /\ screenplay_text = Some(ConcatPages(extracted_from[1].pages))
          /\ current_movie = Some(movie_name_of(extracted_from[1]))
    /\ screenplay_arg # None =>
          /\ uploaded_file # None /\ extracted_from # None
          /\ screenplay_arg = Some(ConcatPages(extracted_from[1].pages))
          /\ movie_name_of(uploaded_file[1]) = movie_name_of(extracted_from[1])
          /\ \A k \in 1..Len(calls) :
                calls[k].request.prompt = PromptText(k, ConcatPages(extracted_from[1].pages))

\* C7 witness: the upload of a second document, with another identifier, has
\* just replaced the text the session held for the first.
C7_Witness ==
    /\ pc = "line185"
    /\ snapshot[1] # None /\ snapshot[1] # current_movie
    /\ snapshot[2] # None /\ snapshot[2] # screenplay_text
    /\ screenplay_text = Some(ConcatPages(uploaded_file[1].pages))

\* the upload in the uploader has the identifier the session holds a text for
SameDocument ==
    /\ uploaded_file # None
    /\ screenplay_text # None
    /\ current_movie = Some(movie_name_of(uploaded_file[1]))

\* C8 as claimed: once a report has been compiled the session holds the
\* AnalysisResult and the ReportDocument after every event, until a new
\* document is uploaded.
C8_StaysReportReady ==
    (pc = "idle" /\ report_for # None) => (all_results # None /\ pdf_file # None)

\* C8 amended: a successful report-generation run ends holding the
\* AnalysisResult and the ReportDocument, with the download button shown;
\* they are held at no other time, and every later event, a click on the
\* download button included, starts a run that holds neither.
C8_ReportHeldUntilNextEvent ==
    /\ [](pc = "idle" /\ button /\ error = "NoError" =>
              all_results # None /\ pdf_file # None /\ download_shown)
    /\ [](pdf_file # None =>
              pc = "idle" /\ button /\ error = "NoError" /\ all_results # None
                 /\ report_for = uploaded_file)
    /\ [][(pc = "idle" /\ pc' # "idle") => (all_results' = None /\ pdf_file' = None)]_vars

\* C8 witness: a run after a compiled report, with no new upload, has ended
\* and holds neither result nor document.
C8_Witness ==
    /\ pc = "idle"
    /\ report_for # None
    /\ error = "NoError"
    /\ all_results = None
    /\ pdf_file = None

\* C9: when a run ends in a failure the session state is the one the event
\* found, no document is held, and an AnalysisResult is held only if it is
\* the complete one of a run whose document could not be built.
C9_FailureKeepsSession ==
    error # "NoError" =>
        /\ pc = "idle"
        /\ <<current_movie, screenplay_text>> = snapshot
        /\ pdf_file = None
        /\ results = <<>>
        /\ ~download_shown
        /\ IF error = "FileNotFoundError"
           THEN all_results # None /\ Keys(all_results[1]) = Categories
           ELSE all_results = None

\* C9 witness: the extraction of a second document failed while the text of
\* the first was held.
C9_Witness ==
    /\ error = "ExtractionError"
    /\ current_movie # None
    /\ screenplay_text # None
    /\ uploaded_file # extracted_from

\* C10: when no run is in progress a text is held iff current_movie is set,
\* and it is the text of the upload that set it; a run for an upload with the
\* held identifier goes on without extraction; only the extraction step
\* changes the two fields.
C10_SessionConsistent ==
    /\ [](pc = "idle" =>
              /\ screenplay_text # None <=> current_movie # None
              /\ current_movie # None =>
                    /\ extracted_from # None
                    /\ current_movie = Some(movie_name_of(extracted_from[1]))
                    /\ screenplay_text = Some(ConcatPages(extracted_from[1].pages)))
    /\ [][(pc = "line175" /\ SameDocument) =>
              (pc' = "line185" /\ UNCHANGED <<sessionVars, extracted_from>>)]_vars
    /\ [][pc # "line175" => UNCHANGED sessionVars]_vars

\* C10 witness: a document with the held identifier but another content was
\* uploaded and the run went past the extraction.
C10_Witness ==
    /\ pc = "line185"
    /\ ~button
    /\ SameDocument
    /\ uploaded_file # extracted_from
    /\ screenplay_text = Some(ConcatPages(extracted_from[1].pages))

=============================================================================
